---- MODULE Spec2Model ----
(***************************************************************************)
(* A model of main.py of the FastAPI betting agent: the ingestion endpoint *)
(* quote_demo (provider request, truncation to five events, Event          *)
(* create-if-absent, bookmaker / market filter, snapshot staging, single   *)
(* commit) run by concurrent workers over one shared store, and the Kelly  *)
(* calculator calc_kelly.                                                  *)
(*                                                                         *)
(* Strings that the code concatenates or compares (identifiers, team       *)
(* names, labels, bodies) are sequences of tokens, so that an f-string is  *)
(* a concatenation and two strings are equal iff their tokens are.         *)
(* Decimal odds are integers in hundredths (210 is 2.10); probabilities    *)
(* and the Kelly fraction are integers in units of 10^-4, the precision    *)
(* of round(x, 4).                                                         *)
(*                                                                         *)
(* db.py and models.py are not part of the sources: the session and the    *)
(* store (pending rows, autoflush, the uniqueness constraint on Event.id,  *)
(* the atomic commit) are modelled from the specification.                 *)
(***************************************************************************)
EXTENDS Integers, Sequences, FiniteSets, TLC

VARIABLES
    API_KEY,     \* TRUE iff ODDS_API_KEY is set in the environment
    autoflush,   \* the session factory's autoflush setting (db.py)
    store,       \* committed rows: [events, snapshots]
    pc,          \* each call's position in quote_demo
    sport,       \* each call's `sport` query parameter
    resp,        \* each call's upstream response (status and error body)
    data,        \* each call's parsed payload, resp.json()
    idx,         \* each call's position in `for event in data[:5]`
    session,     \* each call's session: the rows db.add() has staged
    results,     \* each call's `results` list
    response,    \* what each call answers to its client
    kellyBody,   \* the body of a POST /kelly request
    kellyOut     \* the answer of POST /kelly

vars == <<API_KEY, autoflush, store, pc, sport, resp, data, idx, session,
          results, response, kellyBody, kellyOut>>

ingestVars == <<API_KEY, autoflush, store, pc, sport, resp, data, idx,
                session, results, response>>

kellyVars == <<kellyBody, kellyOut>>

-----------------------------------------------------------------------------
(* Bounds of the model *)

\* longest provider payload
MaxEvents == 6

\* longest outcome list of a market
MaxOutcomes == 4

\* longest market list of a bookmaker
MaxMarkets == 2

\* longest bookmaker list of an event
MaxBookmakers == 2

\* POST /kelly inputs: prob in steps of 1/ProbGrid, odds in steps of
\* 1/OddsGrid up to MaxOddsSteps/OddsGrid, safety in steps of 1/SafetyGrid
ProbGrid == 4

OddsGrid == 2

MaxOddsSteps == 8

SafetyGrid == 3

\* the workers that may run quote_demo at the same time
Calls == {"c1", "c2"}

-----------------------------------------------------------------------------
(* Program constants *)

\* data[:5]
RetainLimit == 5

\* len(outs) == 3
RequiredOutcomes == 3

\* resp.status_code != 200
HTTP_OK == 200

\* HTTPException(status_code=500, ...) and an unhandled exception
HTTP_SERVER_ERROR == 500

\* round(..., 4)
RoundDigits == 4

AllowList == {<<"Bet365">>, <<"Pinnacle">>, <<"William Hill">>, <<"Betfair">>}

H2H == <<"h2h">>

-----------------------------------------------------------------------------
(* Helpers *)

Min(a, b) == IF a <= b THEN a ELSE b

RECURSIVE Pow10(_)
Pow10(n) == IF n = 0 THEN 1 ELSE 10 * Pow10(n - 1)

\* Python's round(): the integer nearest to num/den (den > 0), a tie going
\* to the even neighbour.
RoundHalfEven(num, den) ==
    LET q == num \div den
        r == num % den
    IN  IF 2 * r < den THEN q
        ELSE IF 2 * r > den THEN q + 1
        ELSE IF q % 2 = 0 THEN q ELSE q + 1

\* All sequences over S of length at most n.
SeqsUpTo(S, n) == UNION {[1..k -> S] : k \in 0..n}

-----------------------------------------------------------------------------
(* The provider's payload: events, bookmakers, markets, outcomes *)

\* event.get("id") of an event that carries no id (None, or an empty string)
NoId == <<>>

AwayTeam == <<"Away">>

CommenceTime == <<"2025-10-01T18:00:00Z">>

Sports == {<<"soccer_epl">>, <<"soccer_italy_serie_a">>}

MkOutcomes(n, first) ==
    [i \in 1..n |-> [price |-> IF i = 1 THEN first ELSE 150 + 60 * i]]

MkMarket(key, n, first) == [key |-> key, outcomes |-> MkOutcomes(n, first)]

MkBookmaker(title, markets) == [title |-> title, markets |-> markets]

MkEvent(id, home, bms) ==
    [id |-> id, home_team |-> home, away_team |-> AwayTeam,
     commence_time |-> CommenceTime, bookmakers |-> bms]

Listed == <<MkBookmaker(<<"Bet365">>, <<MkMarket(H2H, RequiredOutcomes, 210)>>)>>

Unlisted == <<MkBookmaker(<<"Unibet">>, <<MkMarket(H2H, RequiredOutcomes, 210)>>)>>

\* The events two concurrent calls are fed: one identifier with two
\* different home teams, an event without identifier, with and without a
\* quote of an allow-listed bookmaker.
RaceEvents ==
    { MkEvent(<<"e1">>, <<"H1">>, Listed),
      MkEvent(<<"e1">>, <<"H2">>, Unlisted),
      MkEvent(NoId, <<"H1">>, Listed),
      MkEvent(<<"e2">>, <<"H2">>, <<>>) }

RacePayloads == SeqsUpTo(RaceEvents, 2)

\* Long payloads, around the truncation limit.
LongEvents ==
    { MkEvent(<<"e1">>, <<"H1">>, Listed),
      MkEvent(<<"e2">>, <<"H1">>, Listed),
      MkEvent(NoId, <<"H2">>, Unlisted) }

\* k events of k different identifiers: "m", "mm", "mmm", ...
DistinctPayload(k) ==
    [i \in 1..k |-> MkEvent([j \in 1..i |-> "m"], <<"H1">>, Listed)]

LongPayloads ==
    UNION {[1..k -> LongEvents] \cup {DistinctPayload(k)} :
              k \in (RetainLimit - 1)..MaxEvents}

\* Payloads of one event whose bookmakers and markets vary.
Titles == {<<"Bet365">>, <<"Betfair">>, <<"Unibet">>}

MarketKeys == {H2H, <<"totals">>}

Markets ==
    {MkMarket(k, n, 210) : k \in MarketKeys, n \in (RequiredOutcomes - 1)..MaxOutcomes}
        \cup {MkMarket(H2H, RequiredOutcomes, 0)}

\* one bookmaker, every market list
OneBookmaker ==
    {<<MkBookmaker(t, ms)>> : t \in Titles, ms \in SeqsUpTo(Markets, MaxMarkets)}

\* every bookmaker list, one market each
SimpleBookmakers ==
    {MkBookmaker(t, <<m>>) : t \in Titles,
        m \in {MkMarket(H2H, RequiredOutcomes, 210), MkMarket(H2H, MaxOutcomes, 210)}}

FilterPayloads ==
    {<<MkEvent(<<"e1">>, <<"H1">>, bms)>> :
        bms \in OneBookmaker \cup SeqsUpTo(SimpleBookmakers, MaxBookmakers)}

SinglePayloads == LongPayloads \cup FilterPayloads

\* Upstream answers with a status other than 200: a JSON body (its text and
\* what resp.json() parses it to) or a body that is not JSON.
ErrorResponses ==
    { [status_code |-> 401, is_json |-> TRUE,
       text |-> <<"{", "\"message\"", ":", "\"invalid key\"", "}">>,
       json |-> <<"message", "invalid key">>],
      [status_code |-> 429, is_json |-> TRUE,
       text |-> <<"{", "\"message\"", ":", "\"quota\"", "}">>,
       json |-> <<"message", "quota">>],
      [status_code |-> 502, is_json |-> FALSE,
       text |-> <<"Bad Gateway">>, json |-> <<>>] }

NoResp == [status_code |-> 0, is_json |-> FALSE, text |-> <<>>, json |-> <<>>]

OkResp == [status_code |-> HTTP_OK, is_json |-> TRUE, text |-> <<>>, json |-> <<>>]

-----------------------------------------------------------------------------
(* The answers of the endpoint *)

NoResponse == [status_code |-> 0, detail |-> <<>>, body |-> <<>>]

\* return results
Success(res) == [status_code |-> HTTP_OK, detail |-> <<>>, body |-> res]

\* require_api_key
ConfigError ==
    [status_code |-> HTTP_SERVER_ERROR,
     detail |-> <<"Chiave API non configurata">>, body |-> <<>>]

\* an exception that quote_demo does not catch
InternalError ==
    [status_code |-> HTTP_SERVER_ERROR,
     detail |-> <<"Internal Server Error">>, body |-> <<>>]

GenericUpstreamError(r) ==
    [status_code |-> HTTP_SERVER_ERROR, detail |-> <<"upstream error">>, body |-> <<>>]

\* try: detail = resp.json() / except: detail = resp.text;
\* raise HTTPException(status_code=resp.status_code, detail=detail)
UpstreamError(r) ==
    [status_code |-> r.status_code,
     detail |-> IF r.is_json THEN r.json ELSE r.text,
     body |-> <<>>]

ReturnResultsAnyway(res) == Success(res)

\* db.commit() raises and nothing catches it: the results are not returned
OnCommitError(res) == InternalError

-----------------------------------------------------------------------------
(* The session and the store (db.py, models.py: from the specification) *)

EmptyStore == [events |-> <<>>, snapshots |-> <<>>]

\* db.add(obj): obj becomes pending in the session
AddOp(table, row) == [op |-> "add", table |-> table, row |-> row]

\* db.merge(obj): insert, or overwrite the row of the same primary key
MergeOp(table, row) == [op |-> "merge", table |-> table, row |-> row]

RowIds(rows) == {rows[i].id : i \in 1..Len(rows)}

PendingEvents(pending) ==
    {pending[i].row : i \in {j \in 1..Len(pending) : pending[j].table = "Event"}}

\* The Event rows a query of the session sees: the committed rows, and its
\* own pending rows when the session flushes before it queries. (A flush
\* that meets a committed row of the same identifier raises at the query
\* instead of at the commit; either way the call fails with nothing
\* written, which is the outcome Commit gives it.)
VisibleEvents(st, pending, flush) ==
    {st.events[i] : i \in 1..Len(st.events)}
        \cup (IF flush THEN PendingEvents(pending) ELSE {})

NoConstraint(st, pending) == FALSE

\* The uniqueness constraint on Event.id: an insert of an identifier that is
\* committed already, or two inserts of one identifier.
UniqueViolation(st, pending) ==
    LET ins == {i \in 1..Len(pending) :
                    pending[i].table = "Event" /\ pending[i].op = "add"}
    IN  \/ \E i \in ins : pending[i].row.id \in RowIds(st.events)
        \/ \E i, j \in ins : i < j /\ pending[i].row.id = pending[j].row.id

\* One pending row written: an Event is inserted (or, merged, overwrites the
\* row of its identifier); a snapshot gets the next primary key.
WriteRow(st, p) ==
    IF p.table = "Event"
    THEN IF p.op = "merge" /\ p.row.id \in RowIds(st.events)
         THEN [st EXCEPT !.events =
                  [i \in 1..Len(st.events) |->
                      IF st.events[i].id = p.row.id THEN p.row ELSE st.events[i]]]
         ELSE [st EXCEPT !.events = Append(st.events, p.row)]
    ELSE [st EXCEPT !.snapshots =
             Append(st.snapshots,
                    [id |-> Len(st.snapshots) + 1, snap |-> p.row])]

\* The flush of a commit: the pending rows written in the order of db.add.
RECURSIVE Persist(_, _)
Persist(st, pending) ==
    IF pending = <<>> THEN st
    ELSE Persist(WriteRow(st, Head(pending)), Tail(pending))

-----------------------------------------------------------------------------
(* quote_demo: one retained event *)

NotTruncated(payload) == payload

\* data[:5]
Retained(payload) == SubSeq(payload, 1, Min(RetainLimit, Len(payload)))

\* event.get("id") or f"{home_team}|{away_team}|{commence_time}"
EventId(event) ==
    IF event.id # NoId THEN event.id
    ELSE event.home_team \o <<"|">> \o event.away_team \o <<"|">> \o event.commence_time

\* Event(id=..., sport_key=sport, home_team=..., away_team=..., commence_time=...)
EventRow(sp, event) ==
    [id |-> EventId(event), sport_key |-> sp, home_team |-> event.home_team,
     away_team |-> event.away_team, commence_time |-> event.commence_time]

\* db.query(Event).filter(Event.id == event_id).first()
EventExists(visible, event_id) == \E r \in visible : r.id = event_id

AlwaysInsert(visible, event_id) == TRUE

\* if not db.query(Event)...first():
NeedsEventInsert(visible, event_id) == ~EventExists(visible, event_id)

StageEventIfQuoted(pending, visible, sp, event) ==
    IF /\ NeedsEventInsert(visible, EventId(event))
       /\ \E b \in 1..Len(event.bookmakers) : event.bookmakers[b].title \in AllowList
    THEN Append(pending, AddOp("Event", EventRow(sp, event)))
    ELSE pending

StageEventMerge(pending, visible, sp, event) ==
    Append(pending, MergeOp("Event", EventRow(sp, event)))

\* Inserisci Event se non presente: db.add(Event(...)) if the query finds no row
StageEvent(pending, visible, sp, event) ==
    IF NeedsEventInsert(visible, EventId(event))
    THEN Append(pending, AddOp("Event", EventRow(sp, event)))
    ELSE pending

\* prob(x): round(1 / x, 4) if x is a positive number, else 0.0
\* (x in hundredths, the result in units of 10^-4)
prob(x) ==
    IF x > 0 THEN RoundHalfEven(100 * Pow10(RoundDigits), x) ELSE 0

AtLeastThreeOutcomes(bname, market) ==
    /\ bname \in AllowList
    /\ market.key = H2H
    /\ Len(market.outcomes) >= RequiredOutcomes

\* if bname in [...]: ... if market.get("key") == "h2h": ... if len(outs) == 3:
Eligible(bname, market) ==
    /\ bname \in AllowList
    /\ market.key = H2H
    /\ Len(market.outcomes) = RequiredOutcomes

\* OddsSnapshot(event_id=..., sport_key=sport, bookmaker=bname, market="h2h", ...)
SnapshotRow(sp, event, bname, market) ==
    [event_id |-> EventId(event), sport_key |-> sp, bookmaker |-> bname,
     market |-> H2H,
     home_price |-> market.outcomes[1].price,
     draw_price |-> market.outcomes[2].price,
     away_price |-> market.outcomes[3].price,
     raw |-> market]

\* the dictionary appended to results
Summary(event, bname, market) ==
    [match |-> event.home_team \o <<" vs ">> \o event.away_team,
     bookmaker |-> bname,
     home_win_odds |-> market.outcomes[1].price,
     draw_odds |-> market.outcomes[2].price,
     away_win_odds |-> market.outcomes[3].price,
     prob_home_win |-> prob(market.outcomes[1].price),
     prob_draw |-> prob(market.outcomes[2].price),
     prob_away_win |-> prob(market.outcomes[3].price)]

\* for market in bm.get("markets", []): the eligible markets of one
\* bookmaker, in payload order
RECURSIVE MarketPairs(_, _)
MarketPairs(bname, markets) ==
    IF markets = <<>> THEN <<>>
    ELSE (IF Eligible(bname, Head(markets))
          THEN <<[bname |-> bname, market |-> Head(markets)]>>
          ELSE <<>>) \o MarketPairs(bname, Tail(markets))

\* for bm in event.get("bookmakers", []): the eligible (bookmaker, market)
\* pairs of one event, in payload order
RECURSIVE BookmakerPairs(_)
BookmakerPairs(bms) ==
    IF bms = <<>> THEN <<>>
    ELSE MarketPairs(Head(bms).title, Head(bms).markets) \o BookmakerPairs(Tail(bms))

\* the db.add(OddsSnapshot(...)) of one event
StageSnapshots(pending, sp, event) ==
    LET pairs == BookmakerPairs(event.bookmakers)
    IN  pending \o [i \in 1..Len(pairs) |->
            AddOp("OddsSnapshot",
                  SnapshotRow(sp, event, pairs[i].bname, pairs[i].market))]

\* the results.append(...) of one event
Summaries(event) ==
    LET pairs == BookmakerPairs(event.bookmakers)
    IN  [i \in 1..Len(pairs) |-> Summary(event, pairs[i].bname, pairs[i].market)]

SnapshotsBeforeEvent(pending, visible, sp, event) ==
    StageEvent(StageSnapshots(pending, sp, event), visible, sp, event)

\* One pass of the loop body: the Event first, then its snapshots.
StageOne(pending, visible, sp, event) ==
    StageSnapshots(StageEvent(pending, visible, sp, event), sp, event)

-----------------------------------------------------------------------------
(* POST /kelly *)

\* A float is the exact fraction num/den, den > 0.
Rat(n, d) == [num |-> n, den |-> d]

RatSub(x, y) == Rat(x.num * y.den - y.num * x.den, x.den * y.den)

RatMul(x, y) == Rat(x.num * y.num, x.den * y.den)

\* x / y for y > 0
RatDiv(x, y) == Rat(x.num * y.den, x.den * y.num)

RatLeq(x, y) == x.num * y.den <= y.num * x.den

RatLt(x, y) == x.num * y.den < y.num * x.den

RatMax(x, y) == IF RatLeq(x, y) THEN y ELSE x

\* round(x, 4), in units of 10^-4
Round4(x) == RoundHalfEven(x.num * Pow10(RoundDigits), x.den)

KellyBodies ==
    [prob : {Rat(n, ProbGrid) : n \in (0 - 1)..(ProbGrid + 1)},
     odds : {Rat(n, OddsGrid) : n \in 0..MaxOddsSteps},
     safety : {Rat(n, SafetyGrid) : n \in 0..(SafetyGrid + 1)}]

NoKelly == [prob |-> Rat(0, 1), odds |-> Rat(0, 1), safety |-> Rat(0, 1)]

NoKellyOut == [status_code |-> 0, kelly_fraction |-> 0]

\* KellyInput: prob ge=0 le=1, odds gt=1, safety gt=0 le=1
KellyInputValid(body) ==
    /\ RatLeq(Rat(0, 1), body.prob) /\ RatLeq(body.prob, Rat(1, 1))
    /\ RatLt(Rat(1, 1), body.odds)
    /\ RatLt(Rat(0, 1), body.safety) /\ RatLeq(body.safety, Rat(1, 1))

calc_kelly_unclamped(body) ==
    LET b == RatSub(body.odds, Rat(1, 1))
        k == IF RatLt(Rat(0, 1), b)
             THEN RatDiv(RatSub(RatMul(body.prob, body.odds), Rat(1, 1)), b)
             ELSE Rat(0, 1)
    IN  Round4(RatMul(k, body.safety))

\* b = odds - 1; k = (prob * odds - 1) / b if b > 0 else 0.0;
\* k = max(0.0, k) * safety; round(k, 4)
calc_kelly(body) ==
    LET b == RatSub(body.odds, Rat(1, 1))
        k == IF RatLt(Rat(0, 1), b)
             THEN RatDiv(RatSub(RatMul(body.prob, body.odds), Rat(1, 1)), b)
             ELSE Rat(0, 1)
    IN  Round4(RatMul(RatMax(Rat(0, 1), k), body.safety))

-----------------------------------------------------------------------------
(* quote_demo: the calls *)

Init ==
    /\ API_KEY \in BOOLEAN
    /\ autoflush \in BOOLEAN
    /\ store = EmptyStore
    /\ pc = [c \in Calls |-> "idle"]
    /\ sport = [c \in Calls |-> <<>>]
    /\ resp = [c \in Calls |-> NoResp]
    /\ data = [c \in Calls |-> <<>>]
    /\ idx = [c \in Calls |-> 1]
    /\ session = [c \in Calls |-> <<>>]
    /\ results = [c \in Calls |-> <<>>]
    /\ response = [c \in Calls |-> NoResponse]
    /\ kellyBody = NoKelly
    /\ kellyOut = NoKellyOut

\* The request arrives: require_api_key(), then the GET is sent and awaited.
Start(c) ==
    /\ pc[c] = "idle"
    /\ \E sp \in Sports : sport' = [sport EXCEPT ![c] = sp]
    /\ IF API_KEY
       THEN /\ pc' = [pc EXCEPT ![c] = "waiting"]
            /\ UNCHANGED response
       ELSE /\ pc' = [pc EXCEPT ![c] = "failed"]
            /\ response' = [response EXCEPT ![c] = ConfigError]
    /\ UNCHANGED <<API_KEY, autoflush, store, resp, data, idx, session, results>>
    /\ UNCHANGED kellyVars

\* The provider answers 200 with a payload of `payloads`: data = resp.json().
ReceiveOk(c, payloads) ==
    /\ pc[c] = "waiting"
    /\ \E p \in payloads : data' = [data EXCEPT ![c] = p]
    /\ resp' = [resp EXCEPT ![c] = OkResp]
    /\ results' = [results EXCEPT ![c] = <<>>]
    /\ idx' = [idx EXCEPT ![c] = 1]
    /\ pc' = [pc EXCEPT ![c] = "loop"]
    /\ UNCHANGED <<API_KEY, autoflush, store, sport, session, response>>
    /\ UNCHANGED kellyVars

\* The provider answers with another status: HTTPException.
ReceiveError(c) ==
    /\ pc[c] = "waiting"
    /\ \E r \in ErrorResponses :
        /\ resp' = [resp EXCEPT ![c] = r]
        /\ response' = [response EXCEPT ![c] = UpstreamError(r)]
    /\ pc' = [pc EXCEPT ![c] = "failed"]
    /\ UNCHANGED <<API_KEY, autoflush, store, sport, data, idx, session, results>>
    /\ UNCHANGED kellyVars

\* The wait ends without an answer (timeout=20, or the caller gave up).
Timeout(c) ==
    /\ pc[c] = "waiting"
    /\ pc' = [pc EXCEPT ![c] = "failed"]
    /\ response' = [response EXCEPT ![c] = InternalError]
    /\ UNCHANGED <<API_KEY, autoflush, store, sport, resp, data, idx, session, results>>
    /\ UNCHANGED kellyVars

InLoop(c) == pc[c] = "loop" /\ idx[c] <= Len(Retained(data[c]))

AtCommit(c) == pc[c] = "loop" /\ idx[c] > Len(Retained(data[c]))

\* One pass of `for event in data[:5]`.
ProcessEvent(c) ==
    /\ InLoop(c)
    /\ LET event == Retained(data[c])[idx[c]]
           visible == VisibleEvents(store, session[c], autoflush)
       IN  /\ session' = [session EXCEPT ![c] =
                              StageOne(session[c], visible, sport[c], event)]
           /\ results' = [results EXCEPT ![c] = results[c] \o Summaries(event)]
    /\ idx' = [idx EXCEPT ![c] = idx[c] + 1]
    /\ UNCHANGED <<API_KEY, autoflush, store, pc, sport, resp, data, response>>
    /\ UNCHANGED kellyVars

\* db.commit() after the loop, then return results. A violated uniqueness
\* constraint makes the commit raise; the transaction is rolled back.
Commit(c) ==
    /\ AtCommit(c)
    /\ IF UniqueViolation(store, session[c])
       THEN /\ pc' = [pc EXCEPT ![c] = "failed"]
            /\ response' = [response EXCEPT ![c] = OnCommitError(results[c])]
            /\ UNCHANGED store
       ELSE /\ pc' = [pc EXCEPT ![c] = "done"]
            /\ response' = [response EXCEPT ![c] = Success(results[c])]
            /\ store' = Persist(store, session[c])
    /\ session' = [session EXCEPT ![c] = <<>>]
    /\ UNCHANGED <<API_KEY, autoflush, sport, resp, data, idx, results>>
    /\ UNCHANGED kellyVars

\* db.commit() raises for another reason (the store is unreachable, ...).
CommitFail(c) ==
    /\ AtCommit(c)
    /\ pc' = [pc EXCEPT ![c] = "failed"]
    /\ response' = [response EXCEPT ![c] = OnCommitError(results[c])]
    /\ session' = [session EXCEPT ![c] = <<>>]
    /\ UNCHANGED <<API_KEY, autoflush, store, sport, resp, data, idx, results>>
    /\ UNCHANGED kellyVars

\* Two workers, each serving one call, over the shared store.
Next ==
    \E c \in Calls :
        \/ Start(c)
        \/ ReceiveOk(c, RacePayloads)
        \/ ReceiveError(c)
        \/ Timeout(c)
        \/ ProcessEvent(c)
        \/ Commit(c)
        \/ CommitFail(c)

Spec == Init /\ [][Next]_vars

\* One call alone, over the payloads that vary in length and in markets.
NextSingle ==
    \/ Start("c1")
    \/ ReceiveOk("c1", SinglePayloads)
    \/ ReceiveError("c1")
    \/ Timeout("c1")
    \/ ProcessEvent("c1")
    \/ Commit("c1")
    \/ CommitFail("c1")

SpecSingle == Init /\ [][NextSingle]_vars

\* POST /kelly: the body is validated, then calc_kelly answers.
PostKelly ==
    /\ \E body \in KellyBodies :
        /\ kellyBody' = body
        /\ kellyOut' =
              IF KellyInputValid(body)
              THEN [status_code |-> HTTP_OK, kelly_fraction |-> calc_kelly(body)]
              ELSE [status_code |-> 422, kelly_fraction |-> 0]
    /\ UNCHANGED ingestVars

SpecKelly == Init /\ [][PostKelly]_vars

-----------------------------------------------------------------------------
(* Properties *)

IsPrefix(a, b) == Len(a) <= Len(b) /\ SubSeq(b, 1, Len(a)) = a

\* no two committed Event rows share an identifier
StoreIdsUnique(st) ==
    \A i, j \in 1..Len(st.events) :
        st.events[i].id = st.events[j].id => i = j

\* the rows of table t among the pending rows, in staging order
PendingRows(pending, t) ==
    LET sel == SelectSeq(pending, LAMBDA p : p.table = t)
    IN  [i \in 1..Len(sel) |-> sel[i].row]

\* the identifiers of the events a call retains (the first five)
RetainedIds(c) ==
    {EventId(data[c][i]) : i \in 1..Min(RetainLimit, Len(data[c]))}

\* the (bookmaker, market) positions of an event that are to be quoted
QuotedPositions(event) ==
    {bm \in UNION {{<<b, m>> : m \in 1..Len(event.bookmakers[b].markets)} :
                      b \in 1..Len(event.bookmakers)} :
        /\ event.bookmakers[bm[1]].title \in AllowList
        /\ event.bookmakers[bm[1]].markets[bm[2]].key = H2H
        /\ Len(event.bookmakers[bm[1]].markets[bm[2]].outcomes) = RequiredOutcomes}

\* the k-th quoted position of an event in payload order
QuotedAt(event, k) ==
    CHOOSE bm \in QuotedPositions(event) :
        Cardinality({o \in QuotedPositions(event) :
            o[1] < bm[1] \/ (o[1] = bm[1] /\ o[2] < bm[2])}) = k - 1

RECURSIVE QuotedUpTo(_, _)
QuotedUpTo(payload, n) ==
    IF n = 0 THEN 0
    ELSE QuotedUpTo(payload, n - 1) + Cardinality(QuotedPositions(payload[n]))

(* C1: the store holds at most one Event row per identifier, and a call
   stages an Event insert only for an identifier it observes absent: absent
   from the committed rows and, when the session flushes before it queries,
   from the rows the call itself has staged. This covers an identifier that
   recurs across calls and one that recurs within a call; re-ingestion adds
   snapshot rows only. *)
C1_OneEventRowPerId ==
    [][ /\ StoreIdsUnique(store')
        /\ \A c \in Calls :
             Len(session'[c]) > Len(session[c]) =>
               \A i \in (Len(session[c]) + 1)..Len(session'[c]) :
                 session'[c][i].table = "Event" =>
                   /\ session'[c][i].row.id \notin RowIds(store.events)
                   /\ autoflush =>
                        \A j \in 1..(i - 1) :
                          session'[c][j].table = "Event" =>
                            session'[c][j].row.id # session'[c][i].row.id
      ]_vars

\* both calls succeeded, each with the identifier e1 twice in its payload
C1_Witness ==
    /\ \A c \in Calls :
         /\ pc[c] = "done"
         /\ Len(data[c]) = 2
         /\ EventId(data[c][1]) = <<"e1">>
         /\ EventId(data[c][2]) = <<"e1">>
    /\ Len(store.events) = 1
    /\ Len(store.snapshots) >= 2

(* C2: when the commit of a call fails, the store is left as it was, the
   staged rows are discarded, and the call answers an error without the
   summaries; staging itself never writes to the store. *)
C2_CommitFailureDiscardsBatch ==
    [][ \A c \in Calls :
          /\ (AtCommit(c) /\ pc'[c] = "failed") =>
                /\ store' = store
                /\ session'[c] = <<>>
                /\ response'[c].status_code # HTTP_OK
                /\ response'[c].body = <<>>
          /\ (InLoop(c) /\ idx'[c] # idx[c]) => store' = store
      ]_vars

\* a call that had staged an Event and a snapshot failed at its commit
C2_Witness ==
    \E c \in Calls :
        /\ pc[c] = "failed"
        /\ resp[c] = OkResp
        /\ results[c] # <<>>
        /\ store = EmptyStore

(* C3: under concurrent calls that both saw an identifier absent, the store
   never holds two Event rows of one identifier, and a commit either writes
   every staged row of the call, in staging order, or none. *)
C3_RaceKeepsBatchWhole ==
    [][ /\ StoreIdsUnique(store')
        /\ \A c \in Calls :
             (AtCommit(c) /\ pc'[c] # pc[c]) =>
               \/ store' = store /\ pc'[c] = "failed"
               \/ /\ pc'[c] = "done"
                  /\ store'.events = store.events \o PendingRows(session[c], "Event")
                  /\ Len(store'.snapshots) =
                        Len(store.snapshots) + Len(PendingRows(session[c], "OddsSnapshot"))
                  /\ \A i \in 1..Len(store'.snapshots) :
                        IF i <= Len(store.snapshots)
                        THEN store'.snapshots[i] = store.snapshots[i]
                        ELSE store'.snapshots[i].snap =
                               PendingRows(session[c], "OddsSnapshot")[i - Len(store.snapshots)]
      ]_vars

\* one call has committed an Event that the other, which saw it absent and
\* staged it with a snapshot, is about to commit
C3_Witness ==
    \E c, d \in Calls :
        /\ c # d
        /\ pc[c] = "done"
        /\ AtCommit(d)
        /\ results[d] # <<>>
        /\ \E i \in 1..Len(session[d]) :
              /\ session[d][i].table = "Event"
              /\ session[d][i].row.id \in RowIds(store.events)
              /\ session[d][i].row.id \in RetainedIds(c)

(* C4: a call whose provider request does not end with status 200 stages
   nothing and writes nothing, nothing is staged while the call waits, and
   on a status other than 200 the call's error carries the upstream status
   and the upstream body (the parsed JSON, else the text). *)
C4_UpstreamFailureWritesNothing ==
    [][ \A c \in Calls :
          /\ pc'[c] \in {"idle", "waiting"} => session'[c] = <<>>
          /\ (pc[c] = "waiting" /\ pc'[c] = "failed") =>
                /\ store' = store
                /\ session'[c] = <<>>
                /\ resp'[c].status_code # 0 =>
                      /\ response'[c].status_code = resp'[c].status_code
                      /\ response'[c].detail =
                            (IF resp'[c].is_json THEN resp'[c].json ELSE resp'[c].text)
                      /\ response'[c].body = <<>>
          /\ pc[c] = "failed" => (pc'[c] = "failed" /\ session'[c] = <<>>)
      ]_vars

\* the provider answered 401 and the call failed with 401
C4_Witness ==
    \E c \in Calls :
        /\ pc[c] = "failed"
        /\ resp[c].status_code = 401
        /\ response[c].status_code = 401
        /\ response[c].detail = <<"message", "invalid key">>

(* C5: a staged snapshot refers to an Event that is committed or that the
   same call staged before it, and every committed snapshot refers to a
   committed Event. *)
C5_EventBeforeSnapshot ==
    /\ \A c \in Calls : \A i \in 1..Len(session[c]) :
         session[c][i].table = "OddsSnapshot" =>
           \/ session[c][i].row.event_id \in RowIds(store.events)
           \/ \E j \in 1..(i - 1) :
                /\ session[c][j].table = "Event"
                /\ session[c][j].row.id = session[c][i].row.event_id
    /\ \A i \in 1..Len(store.snapshots) :
         store.snapshots[i].snap.event_id \in RowIds(store.events)

\* a call has staged an Event and then its snapshot, beside committed rows
C5_Witness ==
    /\ Len(store.snapshots) > 0
    /\ \E c \in Calls :
         /\ pc[c] = "loop"
         /\ Len(session[c]) >= 2
         /\ session[c][1].table = "Event"
         /\ session[c][2].table = "OddsSnapshot"
         /\ session[c][2].row.event_id = session[c][1].row.id

(* C6: whatever the payload's length, a call stages, persists and
   summarises the first five events only, in payload order: every row comes
   from one of them, later rows from later positions, and the summaries are
   as many as the quotes of those five. *)
C6_FirstFiveOnly ==
    /\ RowIds(store.events) \subseteq UNION {RetainedIds(c) : c \in Calls}
    /\ \A i \in 1..Len(store.snapshots) :
         store.snapshots[i].snap.event_id \in UNION {RetainedIds(c) : c \in Calls}
    /\ \A c \in Calls :
         /\ idx[c] <= RetainLimit + 1
         /\ Len(PendingRows(session[c], "Event")) <= RetainLimit
         /\ \A i \in 1..Len(session[c]) :
              LET id(k) == IF session[c][k].table = "Event"
                           THEN session[c][k].row.id
                           ELSE session[c][k].row.event_id
              IN  /\ id(i) \in RetainedIds(c)
                  /\ \A j \in 1..i :
                       \E a, b \in 1..Min(RetainLimit, Len(data[c])) :
                         /\ a <= b
                         /\ EventId(data[c][a]) = id(j)
                         /\ EventId(data[c][b]) = id(i)
         /\ pc[c] = "done" =>
              Len(response[c].body) =
                 QuotedUpTo(data[c], Min(RetainLimit, Len(data[c])))
         /\ pc[c] = "loop" =>
              Len(results[c]) =
                 QuotedUpTo(data[c], Min(idx[c] - 1, Min(RetainLimit, Len(data[c]))))

\* a payload of more than five events, all of different identifiers, was
\* ingested: five Event rows, five summaries
C6_Witness ==
    /\ pc["c1"] = "done"
    /\ Len(data["c1"]) > RetainLimit
    /\ EventId(data["c1"][RetainLimit + 1]) \notin RetainedIds("c1")
    /\ Len(store.events) = RetainLimit
    /\ Len(response["c1"].body) = RetainLimit

(* C7: a (bookmaker, market) pair of a retained event gives a snapshot and a
   summary iff the title is allow-listed, the key is h2h and the market has
   exactly three outcomes; each such pair gives exactly one of each, in
   payload order. *)
C7_EligiblePairsOnly ==
    \A c \in Calls :
        (pc[c] = "loop" /\ Len(data[c]) = 1 /\ idx[c] = 2) =>
            LET event == data[c][1]
                snaps == PendingRows(session[c], "OddsSnapshot")
            IN  /\ Len(snaps) = Cardinality(QuotedPositions(event))
                /\ Len(results[c]) = Cardinality(QuotedPositions(event))
                /\ \A k \in 1..Len(snaps) :
                     LET bm == event.bookmakers[QuotedAt(event, k)[1]]
                         mk == bm.markets[QuotedAt(event, k)[2]]
                     IN  /\ snaps[k].bookmaker = bm.title
                         /\ snaps[k].raw = mk
                         /\ results[c][k].bookmaker = bm.title
                         /\ results[c][k].home_win_odds = mk.outcomes[1].price

\* one event was processed whose allow-listed bookmaker has an h2h market
\* of three outcomes beside one of another outcome count
C7_Witness ==
    /\ pc["c1"] = "loop"
    /\ Len(data["c1"]) = 1
    /\ idx["c1"] = 2
    /\ Len(results["c1"]) = 1
    /\ \E b \in 1..Len(data["c1"][1].bookmakers) :
         LET bm == data["c1"][1].bookmakers[b]
         IN  /\ bm.title \in AllowList
             /\ \E m \in 1..Len(bm.markets) :
                  /\ bm.markets[m].key = H2H
                  /\ Len(bm.markets[m].outcomes) # RequiredOutcomes

(* C8: no call changes or removes a committed row: the committed Event rows
   and snapshot rows stay, in place and unchanged, whatever a later payload
   carries for the same identifier. *)
C8_CommittedRowsUntouched ==
    [][ /\ IsPrefix(store.events, store'.events)
        /\ IsPrefix(store.snapshots, store'.snapshots)
      ]_vars

\* a call succeeded whose payload carries another home team, under another
\* sport, for an identifier that was committed before
C8_Witness ==
    \E c \in Calls :
        /\ pc[c] = "done"
        /\ \E i \in 1..Len(data[c]) : \E k \in 1..Len(store.events) :
              /\ EventId(data[c][i]) = store.events[k].id
              /\ data[c][i].home_team # store.events[k].home_team
              /\ sport[c] # store.events[k].sport_key

(* C9: after a successful call every retained event has its Event row,
   also an event without any allow-listed bookmaker, and no snapshot and no
   summary exists for a bookmaker outside the allow-list. *)
C9_EventWithoutQuotes ==
    /\ \A c \in Calls :
         pc[c] = "done" =>
           /\ RetainedIds(c) \subseteq RowIds(store.events)
           /\ \A k \in 1..Len(response[c].body) :
                response[c].body[k].bookmaker \in AllowList
    /\ \A i \in 1..Len(store.snapshots) :
         store.snapshots[i].snap.bookmaker \in AllowList

\* a call succeeded on one event whose only bookmaker is not allow-listed:
\* the Event row exists, without snapshot or summary
C9_Witness ==
    \E c \in Calls :
        /\ pc[c] = "done"
        /\ Len(data[c]) = 1
        /\ data[c][1].bookmakers = Unlisted
        /\ response[c].body = <<>>
        /\ RowIds(store.events) = {EventId(data[c][1])}
        /\ store.snapshots = <<>>

\* the answered fraction, as a fraction
KellyFraction == Rat(kellyOut.kelly_fraction, Pow10(RoundDigits))

KellyAnswered == kellyOut.status_code = HTTP_OK

\* prob * odds <= 1
NoEdge == RatLeq(RatMul(kellyBody.prob, kellyBody.odds), Rat(1, 1))

(* C10, as stated: for valid inputs the answered fraction lies in
   [0, safety] and is 0 whenever prob * odds <= 1. *)
C10_Original ==
    KellyAnswered =>
        /\ RatLeq(Rat(0, 1), KellyFraction)
        /\ RatLeq(KellyFraction, kellyBody.safety)
        /\ NoEdge => kellyOut.kelly_fraction = 0

(* C10, amended: for valid inputs the answered fraction lies in
   [0, round(safety, 4)], so it is never negative and exceeds safety by
   less than the rounding step, and it is 0 whenever prob * odds <= 1. *)
C10_KellyWithinRoundedSafety ==
    KellyAnswered =>
        /\ 0 <= kellyOut.kelly_fraction
        /\ kellyOut.kelly_fraction <= Round4(kellyBody.safety)
        /\ NoEdge => kellyOut.kelly_fraction = 0

\* a valid request with an edge, a safety below 1 and a positive answer
C10_Witness ==
    /\ KellyAnswered
    /\ ~NoEdge
    /\ RatLt(kellyBody.safety, Rat(1, 1))
    /\ kellyOut.kelly_fraction > 0

====
